---- MODULE Spec2Model ----
(***************************************************************************)
(* A model of unpak (src/src/main.rs): the Bubblewrap sandbox builder and  *)
(* its finalization into a bwrap argument vector, the derivation of a      *)
(* mount from a host path and a standard location, launch_bubblewrap, and  *)
(* SourceProject::build.                                                   *)
(*                                                                         *)
(* Representation.  An OsStr / Path is the sequence of its components:     *)
(* "/usr/bin" is <<"/", "usr", "bin">>, the one-word string "--dir" is     *)
(* <<"--dir">>.  Option<T> is a sequence of length at most one: None is    *)
(* <<>> and Some(x) is <<x>>.                                              *)
(***************************************************************************)
EXTENDS Naturals, Sequences, FiniteSets

VARIABLES
    self,       \* the Bubblewrap builder value (kept as it was when spawn took it)
    phase,      \* "draft" | "consumed" (the builder was moved into spawn)
    panic,      \* Option<message>: the panic that ended the run
    hist,       \* history: what the caller passed to the builder operations
    cmd,        \* Option<Command>: the Command that reached cmd.spawn()
    ret,        \* Option<"Ok" | "Err">: what cmd.spawn() returned
    children,   \* the external processes created so far, in creation order
    stderr,     \* the lines written to standard error, in order
    stdout,     \* the lines written to standard output, in order
    l_proc,     \* SpecLaunch: launch_bubblewrap's `proc` argument
    l_mounts,   \* SpecLaunch: launch_bubblewrap's `mounts` argument
    l_pc,       \* SpecLaunch: position inside launch_bubblewrap
    l_ret,      \* SpecLaunch: Option<value launch_bubblewrap returned>
    l_deps,     \* SpecMain: the (host path, location) pairs main declares
    host_fs,    \* SpecMain: what each declared host path is on the host
    d_host,     \* SpecDerive: the host path given to Mount::from
    d_role,     \* SpecDerive: the StdMountLocation given to Mount::from
    d_result,   \* SpecDerive: Option<outcome of Mount::from>
    b_cmds,     \* SpecBuild: the BuildProcess::Cmds list of the project
    b_idx,      \* SpecBuild: index of the command the for loop is at
    b_pc        \* SpecBuild: position inside SourceProject::build

vars == <<self, phase, panic, hist, cmd, ret, children, stderr, stdout,
          l_proc, l_mounts, l_pc, l_ret, l_deps, host_fs, d_host, d_role,
          d_result,
          b_cmds, b_idx, b_pc>>

builderVars == <<self, phase, hist>>
processVars == <<panic, cmd, ret, children, stderr, stdout>>
launchVars  == <<l_proc, l_mounts, l_pc, l_ret, l_deps, host_fs>>
deriveVars  == <<d_host, d_role, d_result>>
buildVars   == <<b_cmds, b_idx, b_pc>>

----------------------------------------------------------------------------
(* Bounds of the model.                                                    *)

MaxMounts     == 2   \* longest mount list the builder actions build
MaxSymlinks   == 2   \* longest symlink list the builder actions build
MaxEnv        == 2   \* longest explicit environment list
MaxUserMounts == 2   \* longest `mounts` argument of launch_bubblewrap
MaxDepth      == 3   \* most components after the root of a derived host path
MaxCmds       == 3   \* longest Cmds list of a project

----------------------------------------------------------------------------
(* Option<T>.                                                              *)

None    == <<>>
Some(x) == <<x>>

(* Sequences over S of length at most n.                                   *)
SeqUpTo(S, n) == UNION {[1..k -> S] : k \in 0..n}

----------------------------------------------------------------------------
(* Constants of the program.                                               *)

INTERPRETER_HOST == <<"/", "lib64", "ld-linux-x86-64.so.2">>
SBX_LD_LINUX     == <<"/", "usr", "lib", "ld-linux-x86-64.so.2">>
FHS_EXE          == <<"/", "usr", "bin">>
FHS_SO           == <<"/", "usr", "lib">>

(* enum StdMountLocation *)
StdMountLocation == {"UserExe", "UserSo"}

(* into_absolute_path as it would be with the two match arms exchanged.    *)
into_absolute_path_swapped(loc) ==
    CASE loc = "UserExe" -> FHS_SO
      [] loc = "UserSo"  -> FHS_EXE

into_absolute_path(loc) ==
    CASE loc = "UserExe" -> FHS_EXE
      [] loc = "UserSo"  -> FHS_SO

(* enum Mount *)
Touch(sbx) == [kind |-> "Touch", sbx_path |-> sbx]
Fs(ro, host, sbx) ==
    [kind |-> "Fs", readonly |-> ro, host_path |-> host, sbx_path |-> sbx]

(* struct Symlink *)
Symlink(src, dest) == [dest |-> dest, src |-> src]

(* enum EnvVars *)
Inherit   == [kind |-> "Inherit"]
Set(list) == [kind |-> "Set", list |-> list]

----------------------------------------------------------------------------
(* std::path: the part of Path the program uses.                           *)

(* Path::components(): "." is dropped everywhere but at the start of a     *)
(* relative path; the root and ".." are kept.                              *)
RECURSIVE ComponentsFrom(_, _)
ComponentsFrom(p, i) ==
    IF i > Len(p) THEN <<>>
    ELSE IF p[i] = "." /\ i > 1 THEN ComponentsFrom(p, i + 1)
    ELSE <<p[i]>> \o ComponentsFrom(p, i + 1)

Components(p) == ComponentsFrom(p, 1)

(* Path::file_name(): the last component if it is a normal one.            *)
file_name(p) ==
    LET c == Components(p) IN
    IF c = <<>> THEN None
    ELSE IF c[Len(c)] \in {"/", ".", ".."} THEN None
    ELSE Some(c[Len(c)])

(* Path::join(name) for a relative one-component name.                     *)
join(base, name) == base \o <<name>>

(* impl From<(A, B)> for Mount *)
MountFromPair(host, sbx) == Fs(TRUE, host, sbx)

(* impl From<(T, StdMountLocation)> for Mount.  file_name().unwrap()       *)
(* panics on None; the outcome is [panicked, mount].                       *)
MountFrom(host, base_sbx) ==
    LET filename == file_name(host) IN
    IF filename = None
    THEN [panicked |-> TRUE]
    ELSE [panicked |-> FALSE,
          mount |-> Fs(TRUE, host, join(into_absolute_path(base_sbx), filename[1]))]

----------------------------------------------------------------------------
(* impl Bubblewrap: the builder operations, as functions of the builder.   *)

Bubblewrap_new ==
    [mounts        |-> <<>>,
     symlinks      |-> <<>>,
     path          |-> None,
     chdir         |-> None,
     unshare_pid   |-> FALSE,
     new_session   |-> FALSE,
     detach_output |-> FALSE,
     program       |-> None,
     envvars       |-> Inherit]

(* add_mount as it would be if it dropped a directive already in the list. *)
add_mount_dedup(b, mount) ==
    IF \E i \in 1..Len(b.mounts) : b.mounts[i] = mount
    THEN b
    ELSE [b EXCEPT !.mounts = Append(@, mount)]

add_mount(b, mount) == [b EXCEPT !.mounts = Append(@, mount)]

with_mount(b, mount) == add_mount(b, mount)

add_mounts(b, ms) == [b EXCEPT !.mounts = @ \o ms]

with_mounts(b, ms) == add_mounts(b, ms)

add_symlink(b, symlink) == [b EXCEPT !.symlinks = Append(@, symlink)]

with_symlink(b, symlink) == add_symlink(b, symlink)

add_symlinks(b, ss) == [b EXCEPT !.symlinks = @ \o ss]

with_symlinks(b, ss) == add_symlinks(b, ss)

(* set_program as it would be if a program already set were kept.         *)
set_program_keep_first(b, program) ==
    IF b.program = None THEN [b EXCEPT !.program = Some(program)] ELSE b

set_program(b, program) == [b EXCEPT !.program = Some(program)]

with_program(b, program) == set_program(b, program)

with_detach_stdout(b, detach_stdout) == [b EXCEPT !.detach_output = detach_stdout]

(* with_new_session as it would be if it also asked for a PID namespace.   *)
with_new_session_unshares(b, setsid) ==
    [b EXCEPT !.new_session = setsid, !.unshare_pid = setsid]

with_new_session(b, setsid) == [b EXCEPT !.new_session = setsid]

(* with_inherit_env as it would be if an explicit list already there were  *)
(* kept on a switch to explicit.                                           *)
with_inherit_env_keep(b, inherit) ==
    IF inherit THEN [b EXCEPT !.envvars = Inherit]
    ELSE IF b.envvars.kind = "Set" THEN b
    ELSE [b EXCEPT !.envvars = Set(<<>>)]

with_inherit_env(b, inherit) ==
    [b EXCEPT !.envvars = IF inherit THEN Inherit ELSE Set(<<>>)]

(* EnvVars::set_mut panics on Inherit and yields the list on Set.          *)
set_mut_panics(envvars) == envvars.kind = "Inherit"

(* add_envvar where set_mut does not panic.                                *)
add_envvar(b, id, value) ==
    [b EXCEPT !.envvars = Set(Append(@.list, <<id, value>>))]

with_envvar(b, id, value) == add_envvar(b, id, value)

----------------------------------------------------------------------------
(* Bubblewrap::spawn: the arguments it gives to Command, group by group.   *)

MountArg(mount) ==
    IF mount.kind = "Touch"
    THEN <<(<<"--dir">>), mount.sbx_path>>
    ELSE <<(IF mount.readonly THEN <<"--ro-bind">> ELSE <<"--bind">>),
           mount.host_path, mount.sbx_path>>

RECURSIVE MountArgs(_)
MountArgs(ms) ==
    IF ms = <<>> THEN <<>> ELSE MountArg(Head(ms)) \o MountArgs(Tail(ms))

(* SymlinkArg as it would be with the link location ahead of the target.   *)
SymlinkArg_swapped(symlink) == <<(<<"--symlink">>), symlink.dest, symlink.src>>

SymlinkArg(symlink) == <<(<<"--symlink">>), symlink.src, symlink.dest>>

RECURSIVE SymlinkArgs(_)
SymlinkArgs(ss) ==
    IF ss = <<>> THEN <<>> ELSE SymlinkArg(Head(ss)) \o SymlinkArgs(Tail(ss))

PathArgs(path) ==
    IF path = None THEN <<>> ELSE <<(<<"--set-env">>), (<<"PATH">>), path[1]>>

ChdirArgs(chdir) ==
    IF chdir = None THEN <<>> ELSE <<(<<"--chdir">>), chdir[1]>>

UnsharePidArgs(unshare_pid) ==
    IF unshare_pid THEN <<(<<"--unshare-pid">>)>> ELSE <<>>

NewSessionArgs(new_session) ==
    IF new_session THEN <<(<<"--new-session">>)>> ELSE <<>>

RECURSIVE SetenvArgs(_)
SetenvArgs(list) ==
    IF list = <<>> THEN <<>>
    ELSE <<(<<"--setenv">>), Head(list)[1], Head(list)[2]>> \o SetenvArgs(Tail(list))

(* EnvArgs as it would be if an empty explicit list emitted nothing.       *)
EnvArgs_no_clearenv(envvars) ==
    IF envvars.kind = "Inherit" THEN <<>> ELSE SetenvArgs(envvars.list)

EnvArgs(envvars) ==
    IF envvars.kind = "Inherit" THEN <<>>
    ELSE IF envvars.list = <<>> THEN <<(<<"--clearenv">>)>>
    ELSE SetenvArgs(envvars.list)

(* SpawnOptionArgs as it would be with the symlink loop ahead of the      *)
(* mount loop.                                                             *)
SpawnOptionArgs_symlinks_first(b) ==
    SymlinkArgs(b.symlinks) \o MountArgs(b.mounts) \o PathArgs(b.path)
      \o ChdirArgs(b.chdir) \o UnsharePidArgs(b.unshare_pid)
      \o NewSessionArgs(b.new_session) \o EnvArgs(b.envvars)

(* The arguments in front of the program, in the order spawn adds them.    *)
SpawnOptionArgs(b) ==
    MountArgs(b.mounts) \o SymlinkArgs(b.symlinks) \o PathArgs(b.path)
      \o ChdirArgs(b.chdir) \o UnsharePidArgs(b.unshare_pid)
      \o NewSessionArgs(b.new_session) \o EnvArgs(b.envvars)

W_SETSID   == "[unpak] WARNING: setsid will break job control."
W_INHERIT  == "[unpak] WARNING: environment variables are inherited"
W_TERMINAL == "[unpak] WARNING: sandbox escape may be possible because process can control terminal."

(* SpawnWarnings as it would be if the terminal warning looked at          *)
(* new_session alone.                                                      *)
SpawnWarnings_ignores_detach(b) ==
    (IF b.new_session THEN <<W_SETSID>> ELSE <<>>)
      \o (IF b.envvars.kind = "Inherit" THEN <<W_INHERIT>> ELSE <<>>)
      \o (IF ~b.new_session THEN <<W_TERMINAL>> ELSE <<>>)

(* The eprintln! lines of spawn, in the order they are written; all of     *)
(* them come before the program is looked at.                              *)
SpawnWarnings(b) ==
    (IF b.new_session THEN <<W_SETSID>> ELSE <<>>)
      \o (IF b.envvars.kind = "Inherit" THEN <<W_INHERIT>> ELSE <<>>)
      \o (IF ~b.new_session /\ ~b.detach_output THEN <<W_TERMINAL>> ELSE <<>>)

(* self.program.expect(..) panics when no program was set.                 *)
SpawnPanics(b) == b.program = None

(* The Command as it stands when cmd.spawn() is called.                    *)
SpawnCommand(b) ==
    [program     |-> <<"bwrap">>,
     args        |-> SpawnOptionArgs(b) \o <<b.program[1]>>,
     stdout_null |-> b.detach_output,
     stderr_null |-> b.detach_output]

(* spawn as it would be if a missing program were skipped instead of       *)
(* expected.                                                               *)
spawn_no_expect(b) ==
    [panicked |-> FALSE, warnings |-> SpawnWarnings(b),
     command |-> Some([program     |-> <<"bwrap">>,
                       args        |-> SpawnOptionArgs(b) \o b.program,
                       stdout_null |-> b.detach_output,
                       stderr_null |-> b.detach_output])]

(* Bubblewrap::spawn up to the call of cmd.spawn(): the warnings written,  *)
(* and either a panic (no program) or the finished Command.                *)
spawn(b) ==
    IF SpawnPanics(b)
    THEN [panicked |-> TRUE, warnings |-> SpawnWarnings(b), command |-> None]
    ELSE [panicked |-> FALSE, warnings |-> SpawnWarnings(b),
          command |-> Some(SpawnCommand(b))]

(* A child process: the Command it was created from, and its exit status   *)
(* once it has been waited on.                                             *)
Child(command) == [command |-> command, state |-> "running", code |-> None]

Exited(child, code) == [child EXCEPT !.state = "exited", !.code = Some(code)]

(* Exit statuses a child may end with.                                     *)
ExitCodes == {0, 1}

(* A line of output: its text and the values formatted into it.            *)
Line(text) == <<text>>

----------------------------------------------------------------------------
(* The values the builder operations are called with.                      *)

Mounts ==
    {Touch(<<"/", "usr", "bin">>),
     Fs(TRUE, <<"/", "host", "a">>, <<"/", "usr", "bin">>),
     Fs(FALSE, <<"/", "host", "b">>, <<"/", "work">>)}

Symlinks ==
    {Symlink(<<"/", "usr", "bin">>, <<"/", "bin">>),
     Symlink(<<"/", "usr", "lib">>, <<"/", "lib">>)}

EnvPairs == {<<(<<"HOME">>), (<<"/", "root">>)>>, <<(<<"LANG">>), (<<"C">>)>>}

Programs == {<<"/", "usr", "bin", "bash">>, <<"/", "usr", "bin", "ls">>}

(* The iterators handed to add_mounts / with_mounts and to add_symlinks /  *)
(* with_symlinks.                                                          *)
MountBatches == {<<>>} \cup {<<m, n>> : m, n \in Mounts}

SymlinkBatches == {<<>>} \cup {<<k, l>> : k, l \in Symlinks}

(* What the caller has passed so far: the mounts and symlinks added, the   *)
(* program of the latest set_program, the variables passed to add_envvar   *)
(* since the latest policy switch.  When `recording` is set (it is fixed   *)
(* by the initial state), the history also tells whether the latest        *)
(* set_program replaced a different program and whether the latest policy  *)
(* switch discarded variables added before it.                             *)
NoHistory ==
    [mounts      |-> <<>>,
     symlinks    |-> <<>>,
     program     |-> None,
     env         |-> <<>>,
     recording   |-> FALSE,
     overwritten |-> FALSE,
     dropped     |-> FALSE]

InitProcess ==
    /\ panic = None
    /\ cmd = None
    /\ ret = None
    /\ children = <<>>
    /\ stderr = <<>>
    /\ stdout = <<>>

InitBuilderIdle == self = Bubblewrap_new /\ phase = "draft" /\ hist = NoHistory
InitLaunchIdle ==
    /\ l_proc = None
    /\ l_mounts = <<>>
    /\ l_pc = "idle"
    /\ l_ret = None
    /\ l_deps = <<>>
    /\ host_fs = <<>>
InitDeriveIdle  == d_host = <<>> /\ d_role = "UserExe" /\ d_result = None
InitBuildIdle   == b_cmds = <<>> /\ b_idx = 1 /\ b_pc = "idle"

----------------------------------------------------------------------------
(* Spec: a caller applies builder operations to a Bubblewrap::new() value  *)
(* in any order and finalizes it with spawn.  spawn takes self by value,   *)
(* so no operation applies after it; a panic ends the run as well.         *)

Init ==
    /\ InitBuilderIdle
    /\ InitProcess
    /\ InitLaunchIdle
    /\ InitDeriveIdle
    /\ InitBuildIdle

Idle == <<cmd, ret, children, stderr, stdout, launchVars, deriveVars, buildVars>>

(* The builder is still owned by the caller and the run has not panicked.  *)
Draft == phase = "draft" /\ panic = None

P_SET_MUT == "cannot add new environment variables if inherit is set."
P_EXPECT  == "a program to run in the sandbox is required"

AddMount ==
    /\ Draft
    /\ Len(self.mounts) < MaxMounts
    /\ \E m \in Mounts :
         /\ self' = add_mount(self, m)
         /\ hist' = [hist EXCEPT !.mounts = Append(@, m)]
    /\ UNCHANGED <<phase, panic, Idle>>

WithMount ==
    /\ Draft
    /\ Len(self.mounts) < MaxMounts
    /\ \E m \in Mounts :
         /\ self' = with_mount(self, m)
         /\ hist' = [hist EXCEPT !.mounts = Append(@, m)]
    /\ UNCHANGED <<phase, panic, Idle>>

AddMounts ==
    /\ Draft
    /\ \E ms \in MountBatches :
         /\ Len(self.mounts) + Len(ms) <= MaxMounts
         /\ self' = add_mounts(self, ms)
         /\ hist' = [hist EXCEPT !.mounts = @ \o ms]
    /\ UNCHANGED <<phase, panic, Idle>>

WithMounts ==
    /\ Draft
    /\ \E ms \in MountBatches :
         /\ Len(self.mounts) + Len(ms) <= MaxMounts
         /\ self' = with_mounts(self, ms)
         /\ hist' = [hist EXCEPT !.mounts = @ \o ms]
    /\ UNCHANGED <<phase, panic, Idle>>

AddSymlink ==
    /\ Draft
    /\ Len(self.symlinks) < MaxSymlinks
    /\ \E l \in Symlinks :
         /\ self' = add_symlink(self, l)
         /\ hist' = [hist EXCEPT !.symlinks = Append(@, l)]
    /\ UNCHANGED <<phase, panic, Idle>>

WithSymlink ==
    /\ Draft
    /\ Len(self.symlinks) < MaxSymlinks
    /\ \E l \in Symlinks :
         /\ self' = with_symlink(self, l)
         /\ hist' = [hist EXCEPT !.symlinks = Append(@, l)]
    /\ UNCHANGED <<phase, panic, Idle>>

AddSymlinks ==
    /\ Draft
    /\ \E ls \in SymlinkBatches :
         /\ Len(self.symlinks) + Len(ls) <= MaxSymlinks
         /\ self' = add_symlinks(self, ls)
         /\ hist' = [hist EXCEPT !.symlinks = @ \o ls]
    /\ UNCHANGED <<phase, panic, Idle>>

WithSymlinks ==
    /\ Draft
    /\ \E ls \in SymlinkBatches :
         /\ Len(self.symlinks) + Len(ls) <= MaxSymlinks
         /\ self' = with_symlinks(self, ls)
         /\ hist' = [hist EXCEPT !.symlinks = @ \o ls]
    /\ UNCHANGED <<phase, panic, Idle>>

SetProgram ==
    /\ Draft
    /\ \E p \in Programs :
         /\ self' = set_program(self, p)
         /\ hist' = [hist EXCEPT !.program = Some(p),
                                 !.overwritten = hist.recording
                                                 /\ hist.program \notin {None, Some(p)}]
    /\ UNCHANGED <<phase, panic, Idle>>

WithProgram ==
    /\ Draft
    /\ \E p \in Programs :
         /\ self' = with_program(self, p)
         /\ hist' = [hist EXCEPT !.program = Some(p),
                                 !.overwritten = hist.recording
                                                 /\ hist.program \notin {None, Some(p)}]
    /\ UNCHANGED <<phase, panic, Idle>>

WithDetachStdout ==
    /\ Draft
    /\ \E f \in BOOLEAN : self' = with_detach_stdout(self, f)
    /\ UNCHANGED <<phase, panic, hist, Idle>>

WithNewSession ==
    /\ Draft
    /\ \E f \in BOOLEAN : self' = with_new_session(self, f)
    /\ UNCHANGED <<phase, panic, hist, Idle>>

WithInheritEnv ==
    /\ Draft
    /\ \E f \in BOOLEAN : self' = with_inherit_env(self, f)
    /\ hist' = [hist EXCEPT !.env = <<>>,
                            !.dropped = hist.recording /\ hist.env # <<>>]
    /\ UNCHANGED <<phase, panic, Idle>>

(* AddEnvvar as it would be if set_mut handed out a scratch list under     *)
(* Inherit instead of panicking: the call returns and nothing is stored.   *)
AddEnvvar_no_panic ==
    /\ Draft
    /\ \E e \in EnvPairs :
         IF set_mut_panics(self.envvars)
         THEN /\ hist' = [hist EXCEPT !.env = Append(@, e)]
              /\ UNCHANGED <<self, panic>>
         ELSE /\ Len(self.envvars.list) < MaxEnv
              /\ self' = add_envvar(self, e[1], e[2])
              /\ hist' = [hist EXCEPT !.env = Append(@, e)]
              /\ UNCHANGED panic
    /\ UNCHANGED <<phase, Idle>>

(* add_envvar: set_mut panics under Inherit, before anything is pushed.    *)
AddEnvvar ==
    /\ Draft
    /\ \E e \in EnvPairs :
         IF set_mut_panics(self.envvars)
         THEN /\ panic' = Some(P_SET_MUT)
              /\ hist' = [hist EXCEPT !.env = Append(@, e)]
              /\ UNCHANGED self
         ELSE /\ Len(self.envvars.list) < MaxEnv
              /\ self' = add_envvar(self, e[1], e[2])
              /\ hist' = [hist EXCEPT !.env = Append(@, e)]
              /\ UNCHANGED panic
    /\ UNCHANGED <<phase, Idle>>

WithEnvvar ==
    /\ Draft
    /\ \E e \in EnvPairs :
         IF set_mut_panics(self.envvars)
         THEN /\ panic' = Some(P_SET_MUT)
              /\ hist' = [hist EXCEPT !.env = Append(@, e)]
              /\ UNCHANGED self
         ELSE /\ Len(self.envvars.list) < MaxEnv
              /\ self' = with_envvar(self, e[1], e[2])
              /\ hist' = [hist EXCEPT !.env = Append(@, e)]
              /\ UNCHANGED panic
    /\ UNCHANGED <<phase, Idle>>

(* spawn(self): the warnings, then the panic of expect or cmd.spawn(),     *)
(* which creates the bwrap process or fails (bwrap missing, ...).          *)
Spawn ==
    /\ Draft
    /\ LET r == spawn(self) IN
         /\ stderr' = stderr \o [i \in 1..Len(r.warnings) |-> Line(r.warnings[i])]
         /\ cmd' = r.command
         /\ phase' = "consumed"
         /\ IF r.panicked
            THEN /\ panic' = Some(P_EXPECT)
                 /\ UNCHANGED <<ret, children>>
            ELSE /\ UNCHANGED panic
                 /\ \/ /\ ret' = Some("Ok")
                       /\ children' = Append(children, Child(r.command[1]))
                    \/ /\ ret' = Some("Err")
                       /\ UNCHANGED children
    /\ UNCHANGED <<self, hist, stdout, launchVars, deriveVars, buildVars>>

Next ==
    \/ AddMount
    \/ WithMount
    \/ AddMounts
    \/ WithMounts
    \/ AddSymlink
    \/ WithSymlink
    \/ AddSymlinks
    \/ WithSymlinks
    \/ SetProgram
    \/ WithProgram
    \/ WithDetachStdout
    \/ WithNewSession
    \/ WithInheritEnv
    \/ AddEnvvar
    \/ WithEnvvar
    \/ Spawn

Spec == Init /\ [][Next]_vars

(* SpecReplace: the same caller, with the history recording the calls that *)
(* replace what an earlier call had set.                                   *)
InitReplace ==
    /\ self = Bubblewrap_new
    /\ phase = "draft"
    /\ hist = [NoHistory EXCEPT !.recording = TRUE]
    /\ InitProcess
    /\ InitLaunchIdle
    /\ InitDeriveIdle
    /\ InitBuildIdle

SpecReplace == InitReplace /\ [][Next]_vars

----------------------------------------------------------------------------
(* Reading an argument vector back, the way the sandbox tool reads it: an  *)
(* option takes the operands that follow it, anything else is positional.  *)

OptArity(tok) ==
    CASE tok \in {<<"--ro-bind">>, <<"--bind">>, <<"--symlink">>,
                  <<"--set-env">>, <<"--setenv">>} -> 2
      [] tok \in {<<"--dir">>, <<"--chdir">>} -> 1
      [] OTHER -> 0

OptGroup(tok) ==
    CASE tok \in {<<"--dir">>, <<"--ro-bind">>, <<"--bind">>} -> 1
      [] tok = <<"--symlink">> -> 2
      [] tok = <<"--set-env">> -> 3
      [] tok = <<"--chdir">> -> 4
      [] tok = <<"--unshare-pid">> -> 5
      [] tok = <<"--new-session">> -> 6
      [] tok \in {<<"--clearenv">>, <<"--setenv">>} -> 7
      [] OTHER -> 8

RECURSIVE ReadArgs(_)
ReadArgs(args) ==
    IF args = <<>> THEN <<>>
    ELSE LET n == IF OptArity(Head(args)) < Len(args)
                  THEN OptArity(Head(args)) ELSE Len(args) - 1
         IN <<[group    |-> OptGroup(Head(args)),
               flag     |-> Head(args),
               operands |-> SubSeq(args, 2, n + 1)]>>
              \o ReadArgs(SubSeq(args, n + 2, Len(args)))

OfGroup(ds, g) == SelectSeq(ds, LAMBDA d : d.group = g)

WithFlag(ds, f) == SelectSeq(ds, LAMBDA d : d.flag = f)

(* The mount directive a mount option stands for.                          *)
ReadMount(d) ==
    IF d.flag = <<"--dir">> THEN Touch(d.operands[1])
    ELSE Fs(d.flag = <<"--ro-bind">>, d.operands[1], d.operands[2])

ReadMounts(ds) ==
    LET ms == OfGroup(ds, 1) IN [i \in 1..Len(ms) |-> ReadMount(ms[i])]

(* The groups of ds never decrease from one option to the next.            *)
GroupsAscend(ds) == \A i \in 1..Len(ds) - 1 : ds[i].group <= ds[i + 1].group

(* The (name, value) pair a --setenv option stands for.                    *)
ReadSetenvs(ds) ==
    LET es == WithFlag(ds, <<"--setenv">>) IN [i \in 1..Len(es) |-> es[i].operands]

(* The options of the Command spawn built, when it built one.              *)
Emitted == ReadArgs(cmd[1].args)

(* spawn ran to cmd.spawn() on the builder `self`.                         *)
Finalized == phase = "consumed" /\ cmd # None

----------------------------------------------------------------------------
(* Claims about Bubblewrap (specification Spec).                           *)

(* C1: whatever the builder operations did, the arguments spawn emits come *)
(* in the order mounts, symlinks, PATH, chdir, unshare-pid, new-session,   *)
(* environment, program: no option of a later group precedes one of an     *)
(* earlier group, the optional groups are there exactly when set, and the  *)
(* program is the one positional argument, at the end.                     *)
C1_GroupOrder ==
    Finalized =>
        LET ds == Emitted IN
        /\ GroupsAscend(ds)
        /\ Len(OfGroup(ds, 1)) = Len(self.mounts)
        /\ Len(OfGroup(ds, 2)) = Len(self.symlinks)
        /\ Len(OfGroup(ds, 3)) = Len(self.path)
        /\ Len(OfGroup(ds, 4)) = Len(self.chdir)
        /\ (OfGroup(ds, 5) # <<>>) = self.unshare_pid
        /\ (OfGroup(ds, 6) # <<>>) = self.new_session
        /\ Len(OfGroup(ds, 8)) = 1
        /\ ds[Len(ds)].group = 8
        /\ cmd[1].args[Len(cmd[1].args)] = self.program[1]

C1_Witness ==
    /\ Finalized
    /\ Len(self.mounts) = 2
    /\ Len(self.symlinks) = 2
    /\ self.new_session
    /\ self.envvars.kind = "Set"

(* C2: the mount options of the emitted arguments are the directives       *)
(* passed to add_mount / add_mounts, one for one and in the order they     *)
(* were added, repeated and conflicting ones included.                     *)
C2_MountsInAdditionOrder ==
    Finalized => ReadMounts(Emitted) = hist.mounts

C2_Witness ==
    /\ Finalized
    /\ Len(hist.mounts) = 2
    /\ hist.mounts[1] = hist.mounts[2]

(* C3: with the policy Explicit([]) at finalization, --clearenv is emitted *)
(* exactly once and no variable is set.                                    *)
C3_EmptyExplicitClears ==
    (Finalized /\ self.envvars = Set(<<>>)) =>
        LET ds == Emitted IN
        /\ Len(WithFlag(ds, <<"--clearenv">>)) = 1
        /\ WithFlag(ds, <<"--setenv">>) = <<>>
        /\ WithFlag(ds, <<"--set-env">>) = <<>>

C3_Witness ==
    /\ Finalized
    /\ self.envvars = Set(<<>>)
    /\ ret = Some("Ok")

(* C4: with the policy Explicit of one or more variables at finalization,  *)
(* --clearenv is emitted together with one --setenv per variable in        *)
(* addition order; under Inherit no environment argument is emitted.       *)
C4_ExplicitClearsAndSets ==
    Finalized =>
        LET ds == Emitted IN
        /\ (self.envvars.kind = "Set" /\ self.envvars.list # <<>>) =>
              /\ Len(WithFlag(ds, <<"--clearenv">>)) = 1
              /\ ReadSetenvs(ds) = self.envvars.list
        /\ (self.envvars.kind = "Inherit") => OfGroup(ds, 7) = <<>>

(* C5: a builder is finalized at most once, and finalizing one with no     *)
(* program fails the same way whatever was accumulated, with no process    *)
(* created.                                                                *)
C5_NoProgramNoProcess ==
    /\ Len(children) <= 1
    /\ (phase = "consumed" /\ self.program = None) =>
          /\ panic = Some(P_EXPECT)
          /\ cmd = None
          /\ ret = None
          /\ children = <<>>

C5_Witness ==
    /\ phase = "consumed"
    /\ self.program = None
    /\ self.mounts # <<>>
    /\ self.symlinks # <<>>
    /\ self.envvars.kind = "Set"

----------------------------------------------------------------------------
(* SpecDerive: Mount::from((host, location)) applied to one input.         *)

PathComponents == {"a", "b", "libfoo.so", ".", ".."}

(* Relative and absolute host paths of at most MaxDepth components.        *)
HostPaths ==
    {root \o s : root \in {<<>>, <<"/">>}, s \in SeqUpTo(PathComponents, MaxDepth)}

P_UNWRAP_NONE == "called Option::unwrap() on a None value"

InitDerive ==
    /\ InitBuilderIdle
    /\ InitProcess
    /\ InitLaunchIdle
    /\ InitBuildIdle
    /\ d_host \in HostPaths
    /\ d_role \in StdMountLocation
    /\ d_result = None

Derive ==
    /\ d_result = None
    /\ panic = None
    /\ LET r == MountFrom(d_host, d_role) IN
         IF r.panicked
         THEN panic' = Some(P_UNWRAP_NONE) /\ UNCHANGED d_result
         ELSE d_result' = Some(r.mount) /\ UNCHANGED panic
    /\ UNCHANGED <<builderVars, cmd, ret, children, stderr, stdout,
                   launchVars, d_host, d_role, buildVars>>

NextDerive == Derive

SpecDerive == InitDerive /\ [][NextDerive]_vars

(* The final component of a path, read off its component list directly: a  *)
(* "." counts only as the first component of the path.                     *)
FinalComponent(p) ==
    LET kept == {i \in 1..Len(p) : p[i] # "." \/ i = 1} IN
    IF kept = {} THEN None
    ELSE LET k == CHOOSE i \in kept : \A j \in kept : j <= i IN
         IF p[k] \in {"/", ".", ".."} THEN None ELSE Some(p[k])

(* C6: for a host path with a final component and either role, the derived *)
(* mount is a read-only bind of that host path at <role directory>/<final  *)
(* component>, /usr/bin for an executable and /usr/lib for a shared        *)
(* library; a derivation fails only for a path with no final component.    *)
C6_DerivedMount ==
    /\ d_result # None =>
          /\ FinalComponent(d_host) # None
          /\ d_result[1].kind = "Fs"
          /\ d_result[1].readonly
          /\ d_result[1].host_path = d_host
          /\ d_result[1].sbx_path =
                (IF d_role = "UserExe" THEN <<"/", "usr", "bin">>
                                       ELSE <<"/", "usr", "lib">>)
                  \o FinalComponent(d_host)
    /\ panic # None => FinalComponent(d_host) = None

C6_Witness ==
    /\ d_host = <<"/", "a", "b", "libfoo.so">>
    /\ d_role = "UserSo"
    /\ d_result # None
    /\ d_result[1].sbx_path = <<"/", "usr", "lib", "libfoo.so">>

----------------------------------------------------------------------------
(* SpecLaunch: launch_bubblewrap(proc, mounts) for one pair of arguments.  *)

(* launch_builder as it would be with the caller's mounts added ahead of   *)
(* the placeholder directories.                                            *)
launch_builder_mounts_first(proc, mounts) ==
    LET b1 == add_mounts(Bubblewrap_new, mounts)
        b2 == add_mount(b1, Touch(<<"/", "usr", "sbin">>))
        b3 == add_mount(b2, Touch(<<"/", "usr", "bin">>))
        b4 == add_mount(b3, Fs(TRUE, INTERPRETER_HOST, SBX_LD_LINUX))
        b5 == add_symlinks(b4,
                <<Symlink(SBX_LD_LINUX, <<"/", "usr", "lib64", "ld-linux-x86-64.so.2">>),
                  Symlink(<<"/", "usr", "lib">>, <<"/", "lib">>),
                  Symlink(<<"/", "usr", "lib64">>, <<"/", "lib64">>),
                  Symlink(<<"/", "usr", "bin">>, <<"/", "bin">>),
                  Symlink(<<"/", "usr", "sbin">>, <<"/", "sbin">>)>>)
    IN with_inherit_env(with_program(b5, proc), FALSE)

(* The builder as launch_bubblewrap leaves it before spawn.                *)
launch_builder(proc, mounts) ==
    LET b1 == add_mount(Bubblewrap_new, Touch(<<"/", "usr", "sbin">>))
        b2 == add_mount(b1, Touch(<<"/", "usr", "bin">>))
        b3 == add_mounts(b2, mounts)
        b4 == add_mount(b3, Fs(TRUE, INTERPRETER_HOST, SBX_LD_LINUX))
        b5 == add_symlinks(b4,
                <<Symlink(SBX_LD_LINUX, <<"/", "usr", "lib64", "ld-linux-x86-64.so.2">>),
                  Symlink(<<"/", "usr", "lib">>, <<"/", "lib">>),
                  Symlink(<<"/", "usr", "lib64">>, <<"/", "lib64">>),
                  Symlink(<<"/", "usr", "bin">>, <<"/", "bin">>),
                  Symlink(<<"/", "usr", "sbin">>, <<"/", "sbin">>)>>)
    IN with_inherit_env(with_program(b5, proc), FALSE)

(* Mounts a caller may pass: dependencies derived from (host path,         *)
(* location) as main does, the interpreter itself declared as a shared     *)
(* library, and a directory placeholder.                                   *)
UserMounts ==
    {MountFrom(<<"/", "usr", "lib", "x86_64-linux-gnu", "libc.so.6">>, "UserSo").mount,
     MountFrom(<<"/", "usr", "bin", "ls">>, "UserExe").mount,
     MountFrom(INTERPRETER_HOST, "UserSo").mount,
     Touch(<<"/", "usr", "bin">>)}

P_UNWRAP_ERR == "called Result::unwrap() on an Err value"

InitLaunch ==
    /\ InitBuilderIdle
    /\ InitProcess
    /\ InitDeriveIdle
    /\ InitBuildIdle
    /\ l_proc \in {Some(p) : p \in Programs}
    /\ l_mounts \in SeqUpTo(UserMounts, MaxUserMounts)
    /\ l_pc = "start"
    /\ l_ret = None
    /\ l_deps = <<>>
    /\ host_fs = <<>>

(* Lines 384-426: build the builder, spawn it, unwrap the result.          *)
LaunchSpawn ==
    /\ l_pc = "start"
    /\ panic = None
    /\ LET b == launch_builder(l_proc[1], l_mounts)
           r == spawn(b)
       IN /\ self' = b
          /\ phase' = "consumed"
          /\ stderr' = stderr \o [i \in 1..Len(r.warnings) |-> Line(r.warnings[i])]
          /\ cmd' = r.command
          /\ IF r.panicked
             THEN /\ panic' = Some(P_EXPECT)
                  /\ UNCHANGED <<ret, children, l_pc>>
             ELSE \/ /\ ret' = Some("Ok")
                     /\ children' = Append(children, Child(r.command[1]))
                     /\ l_pc' = "wait"
                     /\ UNCHANGED panic
                  \/ /\ ret' = Some("Err")
                     /\ panic' = Some(P_UNWRAP_ERR)
                     /\ UNCHANGED <<children, l_pc>>
    /\ UNCHANGED <<hist, stdout, l_proc, l_mounts, l_ret, l_deps, host_fs,
                   deriveVars, buildVars>>

(* The value of type (): launch_bubblewrap declares no return type.        *)
Unit == <<>>

(* Lines 428-430: wait for the sandbox, unwrap, report the exit status on  *)
(* standard error, return ().                                              *)
LaunchWait ==
    /\ l_pc = "wait"
    /\ panic = None
    /\ \/ \E code \in ExitCodes :
            /\ children' = [children EXCEPT ![Len(children)] = Exited(@, code)]
            /\ stderr' = Append(stderr, <<"[unpak] sandbox exited with code", code>>)
            /\ l_pc' = "done"
            /\ l_ret' = Some(Unit)
            /\ UNCHANGED panic
       \/ /\ panic' = Some(P_UNWRAP_ERR)
          /\ UNCHANGED <<children, stderr, l_pc, l_ret>>
    /\ UNCHANGED <<builderVars, cmd, ret, stdout, l_proc, l_mounts, l_deps,
                   host_fs, deriveVars, buildVars>>

NextLaunch ==
    \/ LaunchSpawn
    \/ LaunchWait

SpecLaunch == InitLaunch /\ [][NextLaunch]_vars

(* launch_bubblewrap's builder reached cmd.spawn().                        *)
Launched == l_pc # "idle" /\ cmd # None

(* The symlink a --symlink option stands for: target, then link location.  *)
ReadSymlinks(ds) ==
    LET ls == OfGroup(ds, 2) IN
    [i \in 1..Len(ls) |->
        [target |-> ls[i].operands[1], link_at |-> ls[i].operands[2]]]

(* How many mount options of ds mount at the sandbox path p.               *)
MountsAt(ds, p) ==
    LET ms == ReadMounts(ds) IN Cardinality({i \in 1..Len(ms) : ms[i].sbx_path = p})

(* C9: whatever mounts the caller passes, the finalized mount list has     *)
(* exactly one directive for /usr/sbin, one for /usr/bin and one for the   *)
(* sandbox interpreter path, also when the caller's mounts name one of     *)
(* these sandbox paths.                                                    *)
C9_BaselineExactlyOnce ==
    Launched =>
        LET ds == Emitted IN
        /\ MountsAt(ds, <<"/", "usr", "sbin">>) = 1
        /\ MountsAt(ds, <<"/", "usr", "bin">>) = 1
        /\ MountsAt(ds, <<"/", "usr", "lib", "ld-linux-x86-64.so.2">>) = 1

(* C10: the invocation launch_bubblewrap builds is: the /usr/sbin and      *)
(* /usr/bin placeholders, the caller's mounts in the order given, the      *)
(* read-only interpreter bind, the five compatibility symlinks, a cleared  *)
(* environment with nothing set, and the target program as the last        *)
(* argument; nothing else.                                                 *)
C10_LaunchInvocation ==
    Launched =>
        LET ds == Emitted IN
        /\ ReadMounts(ds) =
              <<Touch(<<"/", "usr", "sbin">>), Touch(<<"/", "usr", "bin">>)>>
                \o l_mounts
                \o <<Fs(TRUE, <<"/", "lib64", "ld-linux-x86-64.so.2">>,
                        <<"/", "usr", "lib", "ld-linux-x86-64.so.2">>)>>
        /\ ReadSymlinks(ds) =
              <<[target  |-> <<"/", "usr", "lib", "ld-linux-x86-64.so.2">>,
                 link_at |-> <<"/", "usr", "lib64", "ld-linux-x86-64.so.2">>],
                [target |-> <<"/", "usr", "lib">>, link_at |-> <<"/", "lib">>],
                [target |-> <<"/", "usr", "lib64">>, link_at |-> <<"/", "lib64">>],
                [target |-> <<"/", "usr", "bin">>, link_at |-> <<"/", "bin">>],
                [target |-> <<"/", "usr", "sbin">>, link_at |-> <<"/", "sbin">>]>>
        /\ GroupsAscend(ds)
        /\ OfGroup(ds, 7) =
              <<[group |-> 7, flag |-> <<"--clearenv">>, operands |-> <<>>]>>
        /\ OfGroup(ds, 8) =
              <<[group |-> 8, flag |-> l_proc[1], operands |-> <<>>]>>
        /\ Len(ds) = Len(l_mounts) + 10
        /\ cmd[1].program = <<"bwrap">>

C10_Witness ==
    /\ l_pc = "done"
    /\ Len(l_mounts) = 2
    /\ l_mounts[1].sbx_path = <<"/", "usr", "lib", "libc.so.6">>
    /\ l_mounts[2].sbx_path = <<"/", "usr", "bin", "ls">>
    /\ l_proc = Some(<<"/", "usr", "bin", "ls">>)

----------------------------------------------------------------------------
(* SpecBuild: SourceProject::build on one project.                         *)

BuildCmd(program, arguments) == [program |-> program, arguments |-> arguments]

BuildCmds ==
    {BuildCmd(<<"make">>, <<(<<"all">>)>>),
     BuildCmd(<<"/", "bin", "false">>, <<>>)}

(* Command::new(cmd.program).args(&cmd.arguments); stdio is inherited.     *)
BuildCommand(c) ==
    [program     |-> c.program,
     args        |-> c.arguments,
     stdout_null |-> FALSE,
     stderr_null |-> FALSE]

P_EXPECT_SPAWN == "failed to spawn command"

InitBuild ==
    /\ InitBuilderIdle
    /\ InitProcess
    /\ InitLaunchIdle
    /\ InitDeriveIdle
    /\ b_cmds \in SeqUpTo(BuildCmds, MaxCmds)
    /\ b_idx = 1
    /\ b_pc = "start"

BuildIdle == <<builderVars, cmd, ret, launchVars, deriveVars, b_cmds>>

(* Line 41. *)
BuildStart ==
    /\ b_pc = "start"
    /\ stdout' = Append(stdout, Line("[unpak] building project..."))
    /\ b_pc' = "loop"
    /\ UNCHANGED <<panic, children, stderr, b_idx, BuildIdle>>

(* BuildSpawn as it would be without the .wait() after .spawn().           *)
BuildSpawn_no_wait ==
    /\ b_pc = "loop"
    /\ panic = None
    /\ b_idx <= Len(b_cmds)
    /\ stdout' = Append(stdout, <<"[unpak] executing",
                                  b_cmds[b_idx].program, b_cmds[b_idx].arguments>>)
    /\ children' = Append(children, Child(BuildCommand(b_cmds[b_idx])))
    /\ b_idx' = b_idx + 1
    /\ UNCHANGED <<panic, b_pc, stderr, BuildIdle>>

(* BuildSpawn as it would be if a command that cannot be spawned were      *)
(* skipped.                                                                *)
BuildSpawn_skip_failed ==
    /\ b_pc = "loop"
    /\ panic = None
    /\ b_idx <= Len(b_cmds)
    /\ stdout' = Append(stdout, <<"[unpak] executing",
                                  b_cmds[b_idx].program, b_cmds[b_idx].arguments>>)
    /\ \/ /\ children' = Append(children, Child(BuildCommand(b_cmds[b_idx])))
          /\ b_pc' = "wait"
          /\ UNCHANGED b_idx
       \/ /\ b_idx' = b_idx + 1
          /\ UNCHANGED <<children, b_pc>>
    /\ UNCHANGED <<panic, stderr, BuildIdle>>

(* Lines 44-54: the next command of the loop is announced and spawned;     *)
(* expect panics if it cannot be spawned.                                  *)
BuildSpawn ==
    /\ b_pc = "loop"
    /\ panic = None
    /\ b_idx <= Len(b_cmds)
    /\ stdout' = Append(stdout, <<"[unpak] executing",
                                  b_cmds[b_idx].program, b_cmds[b_idx].arguments>>)
    /\ \/ /\ children' = Append(children, Child(BuildCommand(b_cmds[b_idx])))
          /\ b_pc' = "wait"
          /\ UNCHANGED panic
       \/ /\ panic' = Some(P_EXPECT_SPAWN)
          /\ UNCHANGED <<children, b_pc>>
    /\ UNCHANGED <<stderr, b_idx, BuildIdle>>

(* Lines 55-56: wait() reaps the child just spawned; unwrap panics only if *)
(* waiting itself fails.  The exit status is dropped and the loop goes on. *)
BuildWait ==
    /\ b_pc = "wait"
    /\ panic = None
    /\ \/ \E code \in ExitCodes :
            /\ children' = [children EXCEPT ![Len(children)] = Exited(@, code)]
            /\ b_idx' = b_idx + 1
            /\ b_pc' = "loop"
            /\ UNCHANGED panic
       \/ /\ panic' = Some(P_UNWRAP_ERR)
          /\ UNCHANGED <<children, b_idx, b_pc>>
    /\ UNCHANGED <<stdout, stderr, BuildIdle>>

(* Lines 57-60: the loop is exhausted and build returns ().                *)
BuildReturn ==
    /\ b_pc = "loop"
    /\ panic = None
    /\ b_idx > Len(b_cmds)
    /\ b_pc' = "done"
    /\ UNCHANGED <<panic, children, stdout, stderr, b_idx, BuildIdle>>

NextBuild ==
    \/ BuildStart
    \/ BuildSpawn
    \/ BuildWait
    \/ BuildReturn

SpecBuild == InitBuild /\ [][NextBuild]_vars

(* C7: once a command has exited with a non-zero status, no later command  *)
(* is spawned and the build does not end normally: it fails at that        *)
(* command.                                                                *)
C7_NonZeroExitIsFatal ==
    \A i \in 1..Len(children) :
        (children[i].code # None /\ children[i].code # Some(0)) =>
            /\ Len(children) = i
            /\ b_pc # "done"

(* C8: the commands are started in declared order, each as a process of    *)
(* its own with the declared program and arguments; a command is started   *)
(* only after every earlier one has been waited on, so at most one is      *)
(* running at any time.                                                    *)
C8_SequentialBuild ==
    /\ Len(children) <= Len(b_cmds)
    /\ \A i \in 1..Len(children) :
          /\ children[i].command.program = b_cmds[i].program
          /\ children[i].command.args = b_cmds[i].arguments
          /\ i < Len(children) => children[i].state = "exited"
    /\ Cardinality({i \in 1..Len(children) : children[i].state = "running"}) <= 1

C8_Witness ==
    /\ Len(children) = 3
    /\ children[1].state = "exited"
    /\ children[2].state = "exited"
    /\ children[3].state = "running"
    /\ b_cmds[1] # b_cmds[2]

----------------------------------------------------------------------------
(* More about launch_bubblewrap (specification SpecLaunch).                *)

(* C13: when the sandboxed process has exited, launch_bubblewrap hands its *)
(* exit status to the caller unchanged, and a non-zero status is a failure *)
(* of the step: the function does not complete normally on it.             *)
C13_ExitStatusSurfaced ==
    l_pc = "done" =>
        LET code == children[Len(children)].code[1] IN
        /\ l_ret = Some(<<code>>)
        /\ code # 0 => panic # None

----------------------------------------------------------------------------
(* SpecMain: main's flow for a list of declared dependencies: each (host   *)
(* path, location) pair is turned into a Mount, and the mounts are handed  *)
(* to launch_bubblewrap.                                                   *)

Dep(host, location) == [host |-> host, location |-> location]

(* Lines 465-493: the six dependencies main declares, in order.            *)
Deps ==
    <<Dep(<<"/", "usr", "lib", "x86_64-linux-gnu", "libtinfo.so.6">>, "UserSo"),
      Dep(<<"/", "usr", "lib", "x86_64-linux-gnu", "libc.so.6">>, "UserSo"),
      Dep(<<"/", "usr", "lib", "x86_64-linux-gnu", "libselinux.so.1">>, "UserSo"),
      Dep(<<"/", "usr", "lib", "x86_64-linux-gnu", "libpcre2-8.so.0">>, "UserSo"),
      Dep(<<"/", "usr", "bin", "bash">>, "UserExe"),
      Dep(<<"/", "usr", "bin", "ls">>, "UserExe")>>

(* Line 495: the program main hands to launch_bubblewrap.                  *)
MainProgram == <<"/", "usr", "bin", "bash">>

(* The host main runs on is not the program's to choose: each declared     *)
(* path is a regular file there, a symbolic link to a file elsewhere, or   *)
(* absent.                                                                 *)
HostKinds == {"file", "link", "absent"}

DeclaredPaths == {Deps[i].host : i \in 1..Len(Deps)}

Hosts == [DeclaredPaths -> HostKinds]

InitMain ==
    /\ InitBuilderIdle
    /\ InitProcess
    /\ InitDeriveIdle
    /\ InitBuildIdle
    /\ l_proc = Some(MainProgram)
    /\ l_deps = Deps
    /\ host_fs \in Hosts
    /\ l_mounts = <<>>
    /\ l_pc = "derive"
    /\ l_ret = None

(* Lines 465-495: every tuple is converted with .into() before the call.   *)
MainDerive ==
    /\ l_pc = "derive"
    /\ panic = None
    /\ LET rs == [i \in 1..Len(l_deps) |-> MountFrom(l_deps[i].host, l_deps[i].location)]
       IN IF \E i \in 1..Len(rs) : rs[i].panicked
          THEN panic' = Some(P_UNWRAP_NONE) /\ UNCHANGED <<l_mounts, l_pc>>
          ELSE /\ l_mounts' = [i \in 1..Len(rs) |-> rs[i].mount]
               /\ l_pc' = "start"
               /\ UNCHANGED panic
    /\ UNCHANGED <<builderVars, cmd, ret, children, stderr, stdout,
                   l_proc, l_ret, l_deps, host_fs, deriveVars, buildVars>>

NextMain ==
    \/ MainDerive
    \/ LaunchSpawn
    \/ LaunchWait

SpecMain == InitMain /\ [][NextMain]_vars

(* The real, symlink-free location of a declared path on the host, or     *)
(* None for a path that does not exist there.  The file a link points to  *)
(* lives under /real.                                                      *)
HostResolve(p) ==
    CASE host_fs[p] = "file" -> Some(p)
      [] host_fs[p] = "link" -> Some(<<"/", "real">> \o Tail(p))
      [] OTHER -> None

(* C11: with a declared dependency whose host path cannot be resolved, the *)
(* derivation fails and bwrap is never spawned: a Command reaches          *)
(* cmd.spawn() only if every declared dependency resolves.                 *)
C11_UnresolvedNeverLaunched ==
    cmd # None =>
        \A i \in 1..Len(l_deps) : HostResolve(l_deps[i].host) # None

(* C12: the host path of each derived bind, as passed to the sandbox tool, *)
(* is the real symlink-free location of the declared path.                 *)
C12_HostPathCanonical ==
    cmd # None =>
        LET ms == ReadMounts(Emitted) IN
        \A i \in 1..Len(l_deps) :
            HostResolve(l_deps[i].host) # None =>
                ms[2 + i].host_path = HostResolve(l_deps[i].host)[1]

----------------------------------------------------------------------------
(* More about Bubblewrap (specifications Spec and SpecReplace).            *)

(* C14: the program the builder holds is the argument of the latest        *)
(* set_program / with_program call, whatever else was called in between,   *)
(* and spawn emits it once, as the last argument.                          *)
C14_LatestProgramWins ==
    /\ self.program = hist.program
    /\ Finalized =>
          LET ds == Emitted IN
          /\ OfGroup(ds, 8) =
                <<[group |-> 8, flag |-> hist.program[1], operands |-> <<>>]>>
          /\ ds[Len(ds)].flag = hist.program[1]

C14_Witness ==
    /\ Finalized
    /\ hist.overwritten
    /\ self.mounts # <<>>
    /\ self.envvars.kind = "Set"

(* C15: a switch to the explicit policy leaves the list empty whatever was *)
(* added before it, so the explicit list, and the variables spawn emits,   *)
(* are those passed to add_envvar since the latest switch, in order.       *)
C15_ExplicitSwitchResets ==
    self.envvars.kind = "Set" =>
        /\ self.envvars.list = hist.env
        /\ Finalized => ReadSetenvs(Emitted) = hist.env

C15_Witness ==
    /\ Finalized
    /\ hist.dropped
    /\ Len(hist.env) = 2
    /\ hist.env[1] # hist.env[2]

(* C16: under Inherit, the policy of a new builder included, add_envvar    *)
(* panics at once and stores nothing: the policy never carries a variable, *)
(* and a call made under it has ended the run before anything was spawned. *)
C16_InheritStoresNothing ==
    self.envvars.kind = "Inherit" =>
        /\ self.envvars = [kind |-> "Inherit"]
        /\ hist.env # <<>> =>
              /\ panic = Some(P_SET_MUT)
              /\ phase = "draft"
              /\ cmd = None
              /\ children = <<>>

C16_Witness ==
    /\ panic = Some(P_SET_MUT)
    /\ self = Bubblewrap_new
    /\ hist.env # <<>>

(* How many lines of a log are the given line.                             *)
Count(log, line) == Cardinality({i \in 1..Len(log) : log[i] = line})

(* C18: spawn writes the inherited-environment warning exactly when the    *)
(* policy is Inherit and the terminal warning exactly when neither         *)
(* new_session nor detach_output is set; with a program set the launch is  *)
(* attempted all the same, with the arguments the builder holds and no     *)
(* others.                                                                 *)
C18_WarningsAdvisory ==
    phase = "consumed" =>
        /\ Count(stderr, <<W_INHERIT>>) =
              (IF self.envvars.kind = "Inherit" THEN 1 ELSE 0)
        /\ Count(stderr, <<W_TERMINAL>>) =
              (IF ~self.new_session /\ ~self.detach_output THEN 1 ELSE 0)
        /\ self.program # None =>
              /\ panic = None
              /\ cmd # None
              /\ ret # None
              /\ Len(Emitted) =
                    Len(self.mounts) + Len(self.symlinks)
                      + (IF self.new_session THEN 1 ELSE 0)
                      + (IF self.envvars.kind = "Inherit" THEN 0
                         ELSE IF self.envvars.list = <<>> THEN 1
                         ELSE Len(self.envvars.list))
                      + 1

C18_Witness ==
    /\ phase = "consumed"
    /\ Count(stderr, <<W_INHERIT>>) = 1
    /\ Count(stderr, <<W_TERMINAL>>) = 1
    /\ ret = Some("Ok")
    /\ self.mounts # <<>>

(* C19: each directive is emitted as one fixed tuple: Touch(p) as --dir p, *)
(* a read-only bind as --ro-bind host sandbox, a read-write bind as --bind *)
(* host sandbox, a symlink as --symlink target link-location; mounts and   *)
(* then symlinks, each in addition order.                                  *)
C19_DirectiveEncoding ==
    Finalized =>
        LET ds == Emitted
            nm == Len(hist.mounts)
        IN /\ \A i \in 1..nm :
                 LET m == hist.mounts[i] IN
                 ds[i] =
                    IF m.kind = "Touch"
                    THEN [group |-> 1, flag |-> <<"--dir">>,
                          operands |-> <<m.sbx_path>>]
                    ELSE IF m.readonly
                    THEN [group |-> 1, flag |-> <<"--ro-bind">>,
                          operands |-> <<m.host_path, m.sbx_path>>]
                    ELSE [group |-> 1, flag |-> <<"--bind">>,
                          operands |-> <<m.host_path, m.sbx_path>>]
           /\ \A j \in 1..Len(hist.symlinks) :
                 ds[nm + j] =
                    [group |-> 2, flag |-> <<"--symlink">>,
                     operands |-> <<hist.symlinks[j].src, hist.symlinks[j].dest>>]

C19_Witness ==
    /\ Finalized
    /\ Len(hist.mounts) = 2
    /\ hist.mounts[1].kind = "Fs"
    /\ ~hist.mounts[1].readonly
    /\ hist.mounts[2].kind = "Touch"
    /\ Len(hist.symlinks) = 2
    /\ hist.symlinks[1] # hist.symlinks[2]

(* C20: no builder operation sets the PATH override, the working directory *)
(* or unshare_pid, so spawn never emits a PATH-set argument, --chdir or    *)
(* --unshare-pid.                                                          *)
C20_NeverSet ==
    /\ self.path = None
    /\ self.chdir = None
    /\ ~self.unshare_pid
    /\ cmd # None =>
          LET ds == Emitted IN
          /\ OfGroup(ds, 3) = <<>>
          /\ OfGroup(ds, 4) = <<>>
          /\ OfGroup(ds, 5) = <<>>

C20_Witness ==
    /\ Finalized
    /\ ret = Some("Ok")
    /\ self.new_session
    /\ self.detach_output
    /\ self.mounts # <<>>

----------------------------------------------------------------------------
(* More about SourceProject::build (specification SpecBuild).              *)

(* C17: a command that cannot be spawned ends the build at once: when an   *)
(* announced command has no process, the run has panicked at that command  *)
(* and no later command was announced or spawned.                          *)
C17_SpawnFailureStops ==
    Len(stdout) > Len(children) + 1 =>
        /\ panic = Some(P_EXPECT_SPAWN)
        /\ Len(stdout) = Len(children) + 2
        /\ b_idx = Len(children) + 1
        /\ b_pc = "loop"
        /\ \A i \in 1..Len(children) : children[i].state = "exited"

C17_Witness ==
    /\ panic = Some(P_EXPECT_SPAWN)
    /\ Len(children) = 1
    /\ Len(b_cmds) = 3

====
